---- MODULE Spec2Model ----
(***************************************************************************)
(* State-machine model of the MFRC522 reader mock (test/libs/MFRC522.h)   *)
(* of TonUINO-TNG, and of the colour scaling of its LED ring               *)
(* (src/ring.hpp, the multiplication operator of Ring::color_t).          *)
(*                                                                         *)
(* The reader is one object; every public method is one atomic action.    *)
(* `last' records the most recent call (its arguments and what it         *)
(* returned), `buffer' is the caller's 18-byte read buffer.               *)
(* `cardRemoved' and `detectValid' are history variables: they record     *)
(* which calls happened, and no action's guard or result reads them.      *)
(***************************************************************************)
EXTENDS Integers, Sequences, FiniteSets, TLC

VARIABLES
    card_is_in,               \* bool card_is_in
    called_PICC_RequestA,     \* bool called_PICC_RequestA
    called_PCD_Authenticate,  \* bool called_PCD_Authenticate
    called_PICC_HaltA,        \* bool called_PICC_HaltA
    uid,                      \* Uid uid: [size, uidByte, sak]
    t_buffer,                 \* byte t_buffer[buffferSizeRead]
    buffer,                   \* the caller's read buffer (18 bytes of capacity)
    last,                     \* the most recent call and its result
    cardRemoved,              \* history: card_out happened, no successful PICC_RequestA since
    detectValid               \* history: the most recent PICC_RequestA succeeded and no
                              \* PICC_ReadCardSerial, card_out or PCD_StopCrypto1 happened since

vars == <<card_is_in, called_PICC_RequestA, called_PCD_Authenticate, called_PICC_HaltA,
          uid, t_buffer, buffer, last, cardRemoved, detectValid>>

-----------------------------------------------------------------------------
(* Program constants *)

buffferSizeRead == 18
buffferSizeWrite == 16
MF_KEY_SIZE == 6
PICC_CMD_MF_AUTH_KEY_A == 96
PICC_CMD_MF_AUTH_KEY_B == 97
UidByteLen == 10

STATUS_OK == "STATUS_OK"
STATUS_ERROR == "STATUS_ERROR"

-----------------------------------------------------------------------------
(* Bounds of the model *)

\* records 0..MaxRec are the records a card can carry in the session model
MaxRec == 1
\* the codec is exercised on bytes 0, 255 and 2^j for j < MaxBit
MaxBit == 2

-----------------------------------------------------------------------------
(* Bytes and records *)

Pow2(n) == 2 ^ n

Byte(x) == x % 256

\* a uint32_t as two 16-bit limbs: its value is hi * 65536 + lo
U32(hi, lo) == [hi |-> hi, lo |-> lo]

\* static_cast<uint32_t>(b) << n, for n in {0, 8, 16, 24}
Shl32(b, n) ==
    CASE n = 24 -> U32((b * Pow2(8)) % Pow2(16), 0)
      [] n = 16 -> U32(b % Pow2(16), 0)
      [] n = 8 -> U32(b \div Pow2(8), (b * Pow2(8)) % Pow2(16))
      [] n = 0 -> U32(0, b)

\* x + y in uint32_t
Add32(x, y) ==
    LET lo == x.lo + y.lo
    IN  U32((x.hi + y.hi + lo \div Pow2(16)) % Pow2(16), lo % Pow2(16))

DataRecord(c, v, f, m, s, s2) ==
    [cookie |-> c, version |-> v, folder |-> f, mode |-> m, special |-> s, special2 |-> s2]

NoRecord == DataRecord(U32(-1, -1), -1, -1, -1, -1, -1)

Zeros(n) == [i \in 1..n |-> 0]

\* the records used as card contents: record 0 is the spec's example record
\* (cookie 0x12345678, version 1, folder 3, mode 1), the others have every
\* byte distinct and the high bit of the cookie set
SampleRecord(i) ==
    IF i = 0 THEN DataRecord(U32(4660, 22136), 1, 3, 1, 0, 0)
    ELSE DataRecord(U32((65244 + i * 257) % Pow2(16), (47768 + i * 771) % Pow2(16)),
                    Byte(2 + i), Byte(5 + i), Byte(3 + i), Byte(200 + i), Byte(100 + i))

Records == {SampleRecord(i) : i \in 0..MaxRec}

ByteSamples == {0, 255} \cup {Pow2(j) : j \in 0..(MaxBit - 1)}

CodecRecords ==
    {DataRecord(U32(b1 * Pow2(8) + b2, b3 * Pow2(8) + b4), v, f, m, s, s2) :
        b1 \in ByteSamples, b2 \in ByteSamples, b3 \in ByteSamples, b4 \in ByteSamples,
        v \in {0, 255}, f \in {1, 255}, m \in {0, 128}, s \in {0, 7}, s2 \in {0, 255}}

-----------------------------------------------------------------------------
(* BlockCodec: the byte layout of card_in and the reassembly of card_decode *)

\* card_in with the cookie bytes laid out least-significant byte first
card_in_buffer_lsb_first(r) ==
    <<r.cookie.lo % Pow2(8), r.cookie.lo \div Pow2(8),
      r.cookie.hi % Pow2(8), r.cookie.hi \div Pow2(8),
      r.version, r.folder, r.mode, r.special, r.special2,
      0, 0, 0, 0, 0, 0, 0, 0, 0>>

\* the initializer list of `buffer' in card_in
card_in_buffer(r) ==
    LET coockie_4 == r.cookie.lo % Pow2(8)        \* (cookie & 0x000000ff) >>  0
        coockie_3 == r.cookie.lo \div Pow2(8)     \* (cookie & 0x0000ff00) >>  8
        coockie_2 == r.cookie.hi % Pow2(8)        \* (cookie & 0x00ff0000) >> 16
        coockie_1 == r.cookie.hi \div Pow2(8)     \* (cookie & 0xff000000) >> 24
    IN  <<coockie_1, coockie_2, coockie_3, coockie_4,
          r.version, r.folder, r.mode, r.special, r.special2,
          0, 0, 0, 0, 0, 0, 0, 0, 0>>

\* card_decode applied to a block b
card_decode_of(b) ==
    DataRecord(Add32(Add32(Add32(Shl32(b[1], 24), Shl32(b[2], 16)), Shl32(b[3], 8)),
                     Shl32(b[4], 0)),
               b[5], b[6], b[7], b[8], b[9])

\* memcpy(dst, src, n) on 1-based sequences
memcpy(dst, src, n) == [i \in 1..Len(dst) |-> IF i <= n THEN src[i] ELSE dst[i]]

-----------------------------------------------------------------------------
(* The call record *)

NoCall ==
    [op |-> "none", ret |-> "none", blockAddr |-> 0, bufferSize |-> 0, data |-> <<>>,
     command |-> 0, key |-> <<>>, rec |-> NoRecord, sak |-> 0]

-----------------------------------------------------------------------------
(* Inputs *)

BlockAddrs == {4, 7, 8}
BufferSizes == {0, 16, 18}
Commands == {PICC_CMD_MF_AUTH_KEY_A, PICC_CMD_MF_AUTH_KEY_B}
Keys == {[i \in 1..MF_KEY_SIZE |-> 255],
         [i \in 1..MF_KEY_SIZE |-> IF i = 1 THEN 0 ELSE 255]}

\* what a caller hands to MIFARE_Write: the first 16 bytes of an encoded
\* record, or a block whose bytes 9..15 are not zero
WriteData ==
    {SubSeq(card_in_buffer(r), 1, buffferSizeWrite) : r \in Records}
        \cup {[i \in 1..buffferSizeWrite |-> 16 + i]}

\* `Uid uid' has no initializer and the constructors are empty: in an object
\* of automatic or dynamic storage its bytes are indeterminate
IndeterminateBytes == {0, 255}

-----------------------------------------------------------------------------
Init ==
    /\ card_is_in = FALSE
    /\ called_PICC_RequestA = FALSE
    /\ called_PCD_Authenticate = FALSE
    /\ called_PICC_HaltA = FALSE
    /\ \E sz \in IndeterminateBytes, sk \in IndeterminateBytes :
           uid = [size |-> sz, uidByte |-> [i \in 1..UidByteLen |-> sk], sak |-> sk]
    /\ t_buffer = Zeros(buffferSizeRead)
    /\ buffer = Zeros(buffferSizeRead)
    /\ last = NoCall
    /\ cardRemoved = FALSE
    /\ detectValid = FALSE

-----------------------------------------------------------------------------
(* Operations of the reader *)

\* PICC_RequestA that looks at card_is_in only
PICC_RequestA_ignores_authentication ==
    /\ IF card_is_in
       THEN /\ called_PICC_RequestA' = TRUE
            /\ last' = [NoCall EXCEPT !.op = "PICC_RequestA", !.ret = STATUS_OK]
            /\ cardRemoved' = FALSE
            /\ detectValid' = TRUE
       ELSE /\ called_PICC_RequestA' = FALSE
            /\ last' = [NoCall EXCEPT !.op = "PICC_RequestA", !.ret = STATUS_ERROR]
            /\ cardRemoved' = cardRemoved
            /\ detectValid' = FALSE
    /\ UNCHANGED <<card_is_in, called_PCD_Authenticate, called_PICC_HaltA, uid,
                   t_buffer, buffer>>

\* PICC_RequestA without the reset of the flag on the failure path
PICC_RequestA_keeps_flag ==
    /\ IF ~called_PCD_Authenticate /\ card_is_in
       THEN /\ called_PICC_RequestA' = TRUE
            /\ last' = [NoCall EXCEPT !.op = "PICC_RequestA", !.ret = STATUS_OK]
            /\ cardRemoved' = FALSE
            /\ detectValid' = TRUE
       ELSE /\ called_PICC_RequestA' = called_PICC_RequestA
            /\ last' = [NoCall EXCEPT !.op = "PICC_RequestA", !.ret = STATUS_ERROR]
            /\ cardRemoved' = cardRemoved
            /\ detectValid' = FALSE
    /\ UNCHANGED <<card_is_in, called_PCD_Authenticate, called_PICC_HaltA, uid,
                   t_buffer, buffer>>

PICC_RequestA ==
    /\ IF ~called_PCD_Authenticate /\ card_is_in
       THEN /\ called_PICC_RequestA' = TRUE
            /\ last' = [NoCall EXCEPT !.op = "PICC_RequestA", !.ret = STATUS_OK]
            /\ cardRemoved' = FALSE
            /\ detectValid' = TRUE
       ELSE /\ called_PICC_RequestA' = FALSE
            /\ last' = [NoCall EXCEPT !.op = "PICC_RequestA", !.ret = STATUS_ERROR]
            /\ cardRemoved' = cardRemoved
            /\ detectValid' = FALSE
    /\ UNCHANGED <<card_is_in, called_PCD_Authenticate, called_PICC_HaltA, uid,
                   t_buffer, buffer>>

PICC_HaltA ==
    /\ called_PICC_HaltA' = TRUE
    /\ last' = [NoCall EXCEPT !.op = "PICC_HaltA", !.ret = STATUS_OK]
    /\ UNCHANGED <<card_is_in, called_PICC_RequestA, called_PCD_Authenticate, uid,
                   t_buffer, buffer, cardRemoved, detectValid>>

\* PCD_Authenticate without the test of uid->size
PCD_Authenticate_ok_any_uid(command, blockAddr, key, u) ==
    command = PICC_CMD_MF_AUTH_KEY_A /\ blockAddr = 7 /\ key[1] = 255

\* the condition of the if in PCD_Authenticate; u is *uid
PCD_Authenticate_ok(command, blockAddr, key, u) ==
    command = PICC_CMD_MF_AUTH_KEY_A /\ blockAddr = 7 /\ key[1] = 255 /\ u.size # 0

\* PCD_Authenticate that drops the identifier when the authentication fails
PCD_Authenticate_fail_closed(command, blockAddr, key) ==
    /\ IF PCD_Authenticate_ok(command, blockAddr, key, uid)
       THEN /\ called_PCD_Authenticate' = TRUE
            /\ uid' = uid
            /\ last' = [NoCall EXCEPT !.op = "PCD_Authenticate", !.ret = STATUS_OK,
                                      !.command = command, !.blockAddr = blockAddr,
                                      !.key = key]
       ELSE /\ called_PCD_Authenticate' = FALSE
            /\ uid' = [uid EXCEPT !.size = 0, !.sak = 0]
            /\ last' = [NoCall EXCEPT !.op = "PCD_Authenticate", !.ret = STATUS_ERROR,
                                      !.command = command, !.blockAddr = blockAddr,
                                      !.key = key]
    /\ UNCHANGED <<card_is_in, called_PICC_RequestA, called_PICC_HaltA,
                   t_buffer, buffer, cardRemoved, detectValid>>

\* callers pass the reader's own uid member as the Uid* argument
PCD_Authenticate(command, blockAddr, key) ==
    /\ IF PCD_Authenticate_ok(command, blockAddr, key, uid)
       THEN /\ called_PCD_Authenticate' = TRUE
            /\ last' = [NoCall EXCEPT !.op = "PCD_Authenticate", !.ret = STATUS_OK,
                                      !.command = command, !.blockAddr = blockAddr,
                                      !.key = key]
       ELSE /\ called_PCD_Authenticate' = FALSE
            /\ last' = [NoCall EXCEPT !.op = "PCD_Authenticate", !.ret = STATUS_ERROR,
                                      !.command = command, !.blockAddr = blockAddr,
                                      !.key = key]
    /\ UNCHANGED <<card_is_in, called_PICC_RequestA, called_PICC_HaltA, uid,
                   t_buffer, buffer, cardRemoved, detectValid>>

\* PCD_StopCrypto1 that forgets to reset the flag
PCD_StopCrypto1_keeps_flag ==
    /\ last' = [NoCall EXCEPT !.op = "PCD_StopCrypto1", !.ret = "void"]
    /\ detectValid' = FALSE
    /\ UNCHANGED <<card_is_in, called_PICC_RequestA, called_PCD_Authenticate,
                   called_PICC_HaltA, uid, t_buffer, buffer, cardRemoved>>

PCD_StopCrypto1 ==
    /\ called_PCD_Authenticate' = FALSE
    /\ last' = [NoCall EXCEPT !.op = "PCD_StopCrypto1", !.ret = "void"]
    /\ detectValid' = FALSE
    /\ UNCHANGED <<card_is_in, called_PICC_RequestA, called_PICC_HaltA, uid,
                   t_buffer, buffer, cardRemoved>>

\* the condition of the early return in MIFARE_Read
MIFARE_Read_fails(auth, blockAddr, bufferSize) ==
    ~auth /\ blockAddr # 4 /\ bufferSize # buffferSizeRead

\* the caller's buffer has room for the 18 bytes that memcpy writes, whatever
\* size the caller states in *bufferSize
MIFARE_Read(blockAddr, bufferSize) ==
    /\ IF MIFARE_Read_fails(called_PCD_Authenticate, blockAddr, bufferSize)
       THEN /\ buffer' = buffer
            /\ last' = [NoCall EXCEPT !.op = "MIFARE_Read", !.ret = STATUS_ERROR,
                                      !.blockAddr = blockAddr, !.bufferSize = bufferSize]
       ELSE /\ buffer' = memcpy(buffer, t_buffer, buffferSizeRead)
            /\ last' = [NoCall EXCEPT !.op = "MIFARE_Read", !.ret = STATUS_OK,
                                      !.blockAddr = blockAddr, !.bufferSize = bufferSize]
    /\ UNCHANGED <<card_is_in, called_PICC_RequestA, called_PCD_Authenticate,
                   called_PICC_HaltA, uid, t_buffer, cardRemoved, detectValid>>

\* the condition of the early return in MIFARE_Write
MIFARE_Write_fails(auth, blockAddr, bufferSize) ==
    ~auth /\ blockAddr # 4 /\ bufferSize # buffferSizeWrite

\* MIFARE_Write copying half a block only
MIFARE_Write_count_half == buffferSizeWrite \div 2

\* number of bytes MIFARE_Write copies into t_buffer
MIFARE_Write_count == buffferSizeWrite

\* MIFARE_Write that copies buffferSizeRead bytes: the two bytes behind the
\* caller's block of 16 land in t_buffer (here they read as the block's last
\* two bytes)
MIFARE_Write_copies_read_size(blockAddr, data, bufferSize) ==
    /\ IF MIFARE_Write_fails(called_PCD_Authenticate, blockAddr, bufferSize)
       THEN /\ t_buffer' = t_buffer
            /\ last' = [NoCall EXCEPT !.op = "MIFARE_Write", !.ret = STATUS_ERROR,
                                      !.blockAddr = blockAddr, !.bufferSize = bufferSize,
                                      !.data = data]
       ELSE /\ t_buffer' = memcpy(t_buffer,
                                  data \o SubSeq(data, buffferSizeWrite - 1, buffferSizeWrite),
                                  buffferSizeRead)
            /\ last' = [NoCall EXCEPT !.op = "MIFARE_Write", !.ret = STATUS_OK,
                                      !.blockAddr = blockAddr, !.bufferSize = bufferSize,
                                      !.data = data]
    /\ UNCHANGED <<card_is_in, called_PICC_RequestA, called_PCD_Authenticate,
                   called_PICC_HaltA, uid, buffer, cardRemoved, detectValid>>

\* MIFARE_Write that copies the block before it tests the guard
MIFARE_Write_copies_first(blockAddr, data, bufferSize) ==
    /\ t_buffer' = memcpy(t_buffer, data, MIFARE_Write_count)
    /\ last' = [NoCall EXCEPT !.op = "MIFARE_Write",
                              !.ret = IF MIFARE_Write_fails(called_PCD_Authenticate,
                                                            blockAddr, bufferSize)
                                      THEN STATUS_ERROR ELSE STATUS_OK,
                              !.blockAddr = blockAddr, !.bufferSize = bufferSize,
                              !.data = data]
    /\ UNCHANGED <<card_is_in, called_PICC_RequestA, called_PCD_Authenticate,
                   called_PICC_HaltA, uid, buffer, cardRemoved, detectValid>>

\* data is the caller's block of 16 bytes
MIFARE_Write(blockAddr, data, bufferSize) ==
    /\ IF MIFARE_Write_fails(called_PCD_Authenticate, blockAddr, bufferSize)
       THEN /\ t_buffer' = t_buffer
            /\ last' = [NoCall EXCEPT !.op = "MIFARE_Write", !.ret = STATUS_ERROR,
                                      !.blockAddr = blockAddr, !.bufferSize = bufferSize,
                                      !.data = data]
       ELSE /\ t_buffer' = memcpy(t_buffer, data, MIFARE_Write_count)
            /\ last' = [NoCall EXCEPT !.op = "MIFARE_Write", !.ret = STATUS_OK,
                                      !.blockAddr = blockAddr, !.bufferSize = bufferSize,
                                      !.data = data]
    /\ UNCHANGED <<card_is_in, called_PICC_RequestA, called_PCD_Authenticate,
                   called_PICC_HaltA, uid, buffer, cardRemoved, detectValid>>

PICC_TYPE_UNKNOWN == "PICC_TYPE_UNKNOWN"
PICC_TYPE_ISO_14443_4 == "PICC_TYPE_ISO_14443_4"
PICC_TYPE_ISO_18092 == "PICC_TYPE_ISO_18092"
PICC_TYPE_MIFARE_MINI == "PICC_TYPE_MIFARE_MINI"
PICC_TYPE_MIFARE_1K == "PICC_TYPE_MIFARE_1K"
PICC_TYPE_MIFARE_4K == "PICC_TYPE_MIFARE_4K"
PICC_TYPE_MIFARE_UL == "PICC_TYPE_MIFARE_UL"
PICC_TYPE_MIFARE_PLUS == "PICC_TYPE_MIFARE_PLUS"
PICC_TYPE_MIFARE_DESFIRE == "PICC_TYPE_MIFARE_DESFIRE"
PICC_TYPE_TNP3XXX == "PICC_TYPE_TNP3XXX"
PICC_TYPE_NOT_COMPLETE == "PICC_TYPE_NOT_COMPLETE"

PICC_Type ==
    {PICC_TYPE_UNKNOWN, PICC_TYPE_ISO_14443_4, PICC_TYPE_ISO_18092, PICC_TYPE_MIFARE_MINI,
     PICC_TYPE_MIFARE_1K, PICC_TYPE_MIFARE_4K, PICC_TYPE_MIFARE_UL, PICC_TYPE_MIFARE_PLUS,
     PICC_TYPE_MIFARE_DESFIRE, PICC_TYPE_TNP3XXX, PICC_TYPE_NOT_COMPLETE}

\* PICC_GetType masking with 0x0F instead of 0x7F
PICC_GetType_mask_0F(sak) ==
    LET s == sak % 16
    IN  CASE s = 4 -> PICC_TYPE_NOT_COMPLETE
          [] s = 9 -> PICC_TYPE_MIFARE_MINI
          [] s = 8 -> PICC_TYPE_MIFARE_1K
          [] s = 0 -> PICC_TYPE_MIFARE_UL
          [] s = 1 -> PICC_TYPE_TNP3XXX
          [] OTHER -> PICC_TYPE_UNKNOWN

\* PICC_GetType without the masking of the topmost bit
PICC_GetType_no_mask(sak) ==
    CASE sak = 4 -> PICC_TYPE_NOT_COMPLETE
      [] sak = 9 -> PICC_TYPE_MIFARE_MINI
      [] sak = 8 -> PICC_TYPE_MIFARE_1K
      [] sak = 24 -> PICC_TYPE_MIFARE_4K
      [] sak = 0 -> PICC_TYPE_MIFARE_UL
      [] sak = 16 -> PICC_TYPE_MIFARE_PLUS
      [] sak = 17 -> PICC_TYPE_MIFARE_PLUS
      [] sak = 1 -> PICC_TYPE_TNP3XXX
      [] sak = 32 -> PICC_TYPE_ISO_14443_4
      [] sak = 64 -> PICC_TYPE_ISO_18092
      [] OTHER -> PICC_TYPE_UNKNOWN

\* sak &= 0x7F, then the switch
PICC_GetType(sak) ==
    LET s == sak % 128
    IN  CASE s = 4 -> PICC_TYPE_NOT_COMPLETE
          [] s = 9 -> PICC_TYPE_MIFARE_MINI
          [] s = 8 -> PICC_TYPE_MIFARE_1K
          [] s = 24 -> PICC_TYPE_MIFARE_4K
          [] s = 0 -> PICC_TYPE_MIFARE_UL
          [] s = 16 -> PICC_TYPE_MIFARE_PLUS
          [] s = 17 -> PICC_TYPE_MIFARE_PLUS
          [] s = 1 -> PICC_TYPE_TNP3XXX
          [] s = 32 -> PICC_TYPE_ISO_14443_4
          [] s = 64 -> PICC_TYPE_ISO_18092
          [] OTHER -> PICC_TYPE_UNKNOWN

\* a call of the static function PICC_GetType
Call_PICC_GetType(sak) ==
    /\ last' = [NoCall EXCEPT !.op = "PICC_GetType", !.sak = sak, !.ret = PICC_GetType(sak)]
    /\ UNCHANGED <<card_is_in, called_PICC_RequestA, called_PCD_Authenticate,
                   called_PICC_HaltA, uid, t_buffer, buffer, cardRemoved, detectValid>>

\* PICC_ReadCardSerial testing card_is_in only
PICC_ReadCardSerial_ok_no_request(in, requested) == in

\* the condition of the if in PICC_ReadCardSerial
PICC_ReadCardSerial_ok(in, requested) == in /\ requested

\* PICC_ReadCardSerial dropping the identifier when it fails
PICC_ReadCardSerial_uid_reset(ok, u) ==
    IF ok
    THEN [size |-> 4,
          uidByte |-> [i \in 1..UidByteLen |-> IF i <= 4 THEN i ELSE u.uidByte[i]],
          sak |-> 8]
    ELSE [u EXCEPT !.size = 0, !.sak = 0]

\* uid after PICC_ReadCardSerial: filled on success, untouched on failure
PICC_ReadCardSerial_uid(ok, u) ==
    IF ok
    THEN [size |-> 4,
          uidByte |-> [i \in 1..UidByteLen |-> IF i <= 4 THEN i ELSE u.uidByte[i]],
          sak |-> 8]
    ELSE u

PICC_ReadCardSerial ==
    LET ok == PICC_ReadCardSerial_ok(card_is_in, called_PICC_RequestA)
    IN  /\ called_PICC_RequestA' = IF ok THEN FALSE ELSE called_PICC_RequestA
        /\ uid' = PICC_ReadCardSerial_uid(ok, uid)
        /\ last' = [NoCall EXCEPT !.op = "PICC_ReadCardSerial",
                                  !.ret = IF ok THEN "true" ELSE "false"]
        /\ detectValid' = FALSE
        /\ UNCHANGED <<card_is_in, called_PCD_Authenticate, called_PICC_HaltA,
                       t_buffer, buffer, cardRemoved>>

card_in(r) ==
    /\ card_is_in' = TRUE
    /\ t_buffer' = memcpy(t_buffer, card_in_buffer(r), buffferSizeRead)
    /\ last' = [NoCall EXCEPT !.op = "card_in", !.ret = "void", !.rec = r]
    /\ UNCHANGED <<called_PICC_RequestA, called_PCD_Authenticate, called_PICC_HaltA,
                   uid, buffer, cardRemoved, detectValid>>

\* card_out that leaves the detected flag as it is
card_out_keeps_request ==
    /\ card_is_in' = FALSE
    /\ uid' = [uid EXCEPT !.size = 0, !.sak = 0]
    /\ last' = [NoCall EXCEPT !.op = "card_out", !.ret = "void"]
    /\ cardRemoved' = TRUE
    /\ detectValid' = FALSE
    /\ UNCHANGED <<called_PICC_RequestA, called_PCD_Authenticate, called_PICC_HaltA,
                   t_buffer, buffer>>

card_out ==
    /\ card_is_in' = FALSE
    /\ uid' = [uid EXCEPT !.size = 0, !.sak = 0]
    /\ called_PICC_RequestA' = FALSE
    /\ last' = [NoCall EXCEPT !.op = "card_out", !.ret = "void"]
    /\ cardRemoved' = TRUE
    /\ detectValid' = FALSE
    /\ UNCHANGED <<called_PCD_Authenticate, called_PICC_HaltA, t_buffer, buffer>>

\* the six out-parameters of card_decode are kept in last.rec
card_decode ==
    /\ last' = [NoCall EXCEPT !.op = "card_decode", !.ret = "void",
                              !.rec = card_decode_of(t_buffer)]
    /\ UNCHANGED <<card_is_in, called_PICC_RequestA, called_PCD_Authenticate,
                   called_PICC_HaltA, uid, t_buffer, buffer, cardRemoved, detectValid>>

-----------------------------------------------------------------------------
(* The reader under any interleaving of its operations *)

Next ==
    \/ PICC_RequestA
    \/ PICC_HaltA
    \/ \E c \in Commands, b \in BlockAddrs, k \in Keys : PCD_Authenticate(c, b, k)
    \/ PCD_StopCrypto1
    \/ \E b \in BlockAddrs, n \in BufferSizes : MIFARE_Read(b, n)
    \/ \E b \in BlockAddrs, d \in WriteData, n \in BufferSizes : MIFARE_Write(b, d, n)
    \/ PICC_ReadCardSerial
    \/ \E r \in Records : card_in(r)
    \/ card_out
    \/ card_decode

Spec == Init /\ [][Next]_vars

(* The block codec alone: a record is encoded onto the card of a fresh      *)
(* reader and decoded                                                      *)

CodecNext ==
    \/ (last.op = "none" /\ \E r \in CodecRecords : card_in(r))
    \/ card_decode

SpecCodec == Init /\ [][CodecNext]_vars

(* The classification alone, over every capability byte *)

ClassifyNext == \E sak \in 0..255 : Call_PICC_GetType(sak)

SpecClassify == Init /\ [][ClassifyNext]_vars

-----------------------------------------------------------------------------
(* Ring::color_t::operator* (src/ring.hpp): a colour scaled by a byte *)

\* static_cast<uint16_t>(c) * s, in the 16 bits of unsigned int on the AVR
scale_product(c, s) == (c * s) % Pow2(16)

\* a channel scaled with a shift by 8 instead of the division by 255
scale_channel_shift(c, s) == Byte(scale_product(c, s) \div 256)

\* static_cast<byte>(static_cast<uint16_t>(c) * s / 255)
scale_channel(c, s) == Byte(scale_product(c, s) \div 255)

color_t(r, g, b) == [r |-> r, g |-> g, b |-> b]

\* color_t::operator*(s)
color_scale(col, s) ==
    color_t(scale_channel(col.r, s), scale_channel(col.g, s), scale_channel(col.b, s))

\* the colours scaled: every value 0..255 occurs in each of the channels
Colors == {color_t(c, 255 - c, (c * 3) % 256) : c \in 0..255}

\* a call of operator* on colour col with scale s
Call_color_scale(col, s) ==
    /\ last' = [op |-> "color_t_operator_mul", color |-> col, s |-> s,
                ret |-> color_scale(col, s)]
    /\ UNCHANGED <<card_is_in, called_PICC_RequestA, called_PCD_Authenticate,
                   called_PICC_HaltA, uid, t_buffer, buffer, cardRemoved, detectValid>>

(* The colour scaling alone: one call, on every colour of Colors and every *)
(* scale 0..255                                                            *)

ScaleNext ==
    last.op = "none" /\ \E col \in Colors, s \in 0..255 : Call_color_scale(col, s)

SpecScale == Init /\ [][ScaleNext]_vars

-----------------------------------------------------------------------------
(* Session states as the reader's flags show them *)

Authenticated == called_PCD_Authenticate
Detected == called_PICC_RequestA /\ ~called_PCD_Authenticate
Selected == uid.size # 0 /\ ~called_PICC_RequestA /\ ~called_PCD_Authenticate
Absent == uid.size = 0 /\ ~called_PICC_RequestA /\ ~called_PCD_Authenticate

Succeeded == last.ret = STATUS_OK \/ last.ret = "true"

-----------------------------------------------------------------------------
(* Properties *)

\* C1: MIFARE_Read and MIFARE_Write return STATUS_OK only when an
\* authentication is active and the block address is the authenticated
\* block 7; otherwise they return a status other than STATUS_OK.
C1_AccessOnlyWhenAuthenticated ==
    (last.op \in {"MIFARE_Read", "MIFARE_Write"} /\ last.ret = STATUS_OK)
        => (called_PCD_Authenticate /\ last.blockAddr = 7)

C3_RoundTrip ==
    [][(last.op = "card_in" /\ last'.op = "card_decode") => last'.rec = last.rec]_vars

\* a record with cookie 0x01FFFF01 has been encoded and decoded
C3_Witness ==
    /\ last.op = "card_decode" /\ card_is_in
    /\ last.rec = DataRecord(U32(511, 65281), 255, 1, 128, 7, 255)

\* C4: a MIFARE_Read right after a successful PICC_ReadCardSerial, with no
\* authenticate in between, fails and leaves the stored block unchanged.
C4_ReadAfterSelectFails ==
    [][(last.op = "PICC_ReadCardSerial" /\ last.ret = "true" /\ last'.op = "MIFARE_Read")
          => (last'.ret # STATUS_OK /\ t_buffer' = t_buffer)]_vars

\* C5: card_out leaves the session Absent, and between a card_out and the
\* next successful PICC_RequestA no PICC_ReadCardSerial, PCD_Authenticate,
\* MIFARE_Read or MIFARE_Write succeeds.
C5_RemovalForcesAbsent ==
    /\ (last.op = "card_out" => Absent)
    /\ (cardRemoved =>
           ~(/\ last.op \in {"PICC_ReadCardSerial", "PCD_Authenticate",
                             "MIFARE_Read", "MIFARE_Write"}
             /\ Succeeded))

\* C6, as stated: after PCD_StopCrypto1 the session is Absent, with the
\* identifier cleared and the authenticated flag cleared.
C6_EndSessionForcesAbsent ==
    last.op = "PCD_StopCrypto1" => Absent

\* C6, amended: PICC_HaltA returns STATUS_OK and only sets its own flag;
\* PCD_StopCrypto1 clears the authenticated flag and changes nothing else, so
\* the identifier and the detected flag stay and a following authenticate
\* with the right command, block and key succeeds whenever an identifier is
\* held; a second PCD_StopCrypto1 changes nothing.
C6_EndSessionClearsAuthenticationOnly ==
    [][/\ (last'.op = "PCD_StopCrypto1" =>
              /\ ~called_PCD_Authenticate'
              /\ UNCHANGED <<card_is_in, called_PICC_RequestA, called_PICC_HaltA,
                             uid, t_buffer, buffer>>)
       /\ (last'.op = "PICC_HaltA" =>
              /\ last'.ret = STATUS_OK /\ called_PICC_HaltA'
              /\ UNCHANGED <<card_is_in, called_PICC_RequestA, called_PCD_Authenticate,
                             uid, t_buffer, buffer>>)
       /\ ((last.op = "PCD_StopCrypto1" /\ last'.op = "PCD_StopCrypto1") =>
              UNCHANGED <<card_is_in, called_PICC_RequestA, called_PCD_Authenticate,
                          called_PICC_HaltA, uid, t_buffer, buffer>>)
       /\ ((/\ last.op = "PCD_StopCrypto1" /\ uid.size # 0
            /\ last'.op = "PCD_Authenticate"
            /\ last'.command = PICC_CMD_MF_AUTH_KEY_A
            /\ last'.blockAddr = 7 /\ last'.key[1] = 255) =>
              last'.ret = STATUS_OK)]_vars

\* a session that selected a card and read its block has been ended: the
\* authentication is gone, the identifier is still held
C6_Witness ==
    /\ last.op = "PCD_StopCrypto1" /\ called_PICC_HaltA /\ card_is_in
    /\ ~called_PCD_Authenticate /\ uid.size = 4 /\ uid.sak = 8
    /\ buffer = t_buffer /\ card_decode_of(buffer) = SampleRecord(0)

\* C7: with an authentication active, MIFARE_Write of 16 bytes to block 7
\* succeeds and stores them, and a MIFARE_Read of block 7 with an 18-byte
\* buffer that follows succeeds and decodes to the record the written bytes
\* decode to, whatever the block held before.
C7_WriteThenRead ==
    [][/\ ((/\ called_PCD_Authenticate /\ last'.op = "MIFARE_Write"
            /\ last'.blockAddr = 7 /\ last'.bufferSize = buffferSizeWrite) =>
              /\ last'.ret = STATUS_OK
              /\ card_decode_of(t_buffer') = card_decode_of(last'.data))
       /\ ((/\ called_PCD_Authenticate
            /\ last.op = "MIFARE_Write" /\ last.ret = STATUS_OK /\ last.blockAddr = 7
            /\ last.bufferSize = buffferSizeWrite
            /\ last'.op = "MIFARE_Read"
            /\ last'.blockAddr = 7 /\ last'.bufferSize = buffferSizeRead) =>
              /\ last'.ret = STATUS_OK
              /\ card_decode_of(buffer') = card_decode_of(last.data))]_vars

\* on a selected and authenticated card that carried record 1, record 0 has
\* been written and read back
C7_Witness ==
    /\ last.op = "MIFARE_Read" /\ last.ret = STATUS_OK
    /\ last.blockAddr = 7 /\ last.bufferSize = buffferSizeRead
    /\ called_PCD_Authenticate /\ card_is_in /\ uid.size = 4
    /\ card_decode_of(buffer) = SampleRecord(0)
    /\ buffer[17] = 0 /\ t_buffer = buffer

\* C8: PICC_GetType yields one of the card types for every byte, with
\* 0x08 -> MIFARE 1K, 0x18 -> MIFARE 4K, 0x00 -> Ultralight,
\* 0x04 -> not complete and 0xFF -> unknown.
C8_Classification ==
    last.op = "PICC_GetType" =>
        /\ last.ret \in PICC_Type
        /\ (last.sak = 8 => last.ret = PICC_TYPE_MIFARE_1K)
        /\ (last.sak = 24 => last.ret = PICC_TYPE_MIFARE_4K)
        /\ (last.sak = 0 => last.ret = PICC_TYPE_MIFARE_UL)
        /\ (last.sak = 4 => last.ret = PICC_TYPE_NOT_COMPLETE)
        /\ (last.sak = 255 => last.ret = PICC_TYPE_UNKNOWN)

\* the byte 0x18 has been classified
C8_Witness ==
    last.op = "PICC_GetType" /\ last.sak = 24 /\ last.ret = PICC_TYPE_MIFARE_4K

\* C9, as stated: after a failed PICC_ReadCardSerial the session is Absent:
\* detected flag clear, no identifier held, no authentication active.
C9_FailedSelectForcesAbsent ==
    (last.op = "PICC_ReadCardSerial" /\ last.ret = "false") => Absent

\* C9, amended: PICC_ReadCardSerial fails only when the detected flag is
\* already clear, and a failed call changes nothing: the detected flag stays
\* clear, the identifier and the authenticated flag stay as they were.
C9_FailedSelectChangesNothing ==
    [][(last'.op = "PICC_ReadCardSerial" /\ last'.ret = "false") =>
          /\ ~called_PICC_RequestA
          /\ UNCHANGED <<card_is_in, called_PICC_RequestA, called_PCD_Authenticate,
                         called_PICC_HaltA, uid, t_buffer, buffer>>]_vars

\* a select has failed while an identifier is held and an authentication is
\* active
C9_Witness ==
    /\ last.op = "PICC_ReadCardSerial" /\ last.ret = "false"
    /\ uid.size = 4 /\ called_PCD_Authenticate /\ card_is_in

\* C10, as stated: PICC_ReadCardSerial succeeds only when the most recent
\* PICC_RequestA succeeded and no PICC_ReadCardSerial, card_out or
\* PCD_StopCrypto1 happened since; on success the identifier has 4, 7 or 10
\* bytes and the state is Selected.
C10_SelectOnlyFromDetected ==
    [][(last'.op = "PICC_ReadCardSerial" /\ last'.ret = "true") =>
          /\ detectValid
          /\ uid'.size \in {4, 7, 10}
          /\ Selected']_vars

\* C10, amended: PICC_ReadCardSerial succeeds exactly when the detected flag
\* is set, and fails otherwise; the flag is set by a successful
\* PICC_RequestA and is not cleared by PCD_StopCrypto1, PICC_HaltA,
\* PCD_Authenticate, MIFARE_Read or MIFARE_Write. On success the identifier
\* has size 4, bytes 1, 2, 3, 4 and capability byte 0x08, the detected flag
\* is cleared and the authenticated flag is left as it was.
C10_SelectNeedsDetectedFlag ==
    [][/\ (last'.op = "PICC_ReadCardSerial" =>
              /\ (last'.ret = "true" <=> called_PICC_RequestA)
              /\ (last'.ret = "true" =>
                     /\ uid'.size = 4 /\ uid'.size \in {4, 7, 10}
                     /\ \A i \in 1..4 : uid'.uidByte[i] = i
                     /\ uid'.sak = 8
                     /\ ~called_PICC_RequestA'
                     /\ UNCHANGED called_PCD_Authenticate))
       /\ (last'.op \in {"PCD_StopCrypto1", "PICC_HaltA", "PCD_Authenticate",
                         "MIFARE_Read", "MIFARE_Write"} =>
              UNCHANGED called_PICC_RequestA)
       /\ ((last'.op = "PICC_RequestA" /\ last'.ret = STATUS_OK) =>
              called_PICC_RequestA')]_vars

\* a select has succeeded on a card that is present: the identifier is
\* filled and the detected flag is cleared
C10_Witness ==
    /\ last.op = "PICC_ReadCardSerial" /\ last.ret = "true"
    /\ uid.size = 4 /\ uid.sak = 8 /\ ~called_PICC_RequestA /\ card_is_in

\* C11: a PCD_Authenticate that fails in Selected returns STATUS_ERROR and
\* leaves the state Selected with the identifier as it was, and a
\* PCD_Authenticate with key A, block 7 and first key byte 0xFF that follows
\* it succeeds.
C11_FailedAuthenticateIsRecoverable ==
    [][/\ ((Selected /\ last'.op = "PCD_Authenticate" /\ last'.ret # STATUS_OK) =>
              /\ last'.ret = STATUS_ERROR
              /\ Selected'
              /\ uid' = uid)
       /\ ((/\ Selected /\ last.op = "PCD_Authenticate" /\ last.ret = STATUS_ERROR
            /\ last'.op = "PCD_Authenticate"
            /\ last'.command = PICC_CMD_MF_AUTH_KEY_A
            /\ last'.blockAddr = 7 /\ last'.key[1] = 255) =>
              /\ last'.ret = STATUS_OK
              /\ called_PCD_Authenticate')]_vars

\* an authenticate with a wrong key has failed on a selected card, which is
\* still selected
C11_Witness ==
    /\ last.op = "PCD_Authenticate" /\ last.ret = STATUS_ERROR
    /\ last.command = PICC_CMD_MF_AUTH_KEY_A /\ last.blockAddr = 7 /\ last.key[1] = 0
    /\ Selected /\ uid.size = 4 /\ card_is_in

\* C12: MIFARE_Read with a buffer size other than 18 and MIFARE_Write with a
\* buffer size other than 16 fail and change neither the session state nor
\* the stored block, also when an authentication is active.
C12_WrongSizeFails ==
    [][/\ ((last'.op = "MIFARE_Read" /\ last'.bufferSize # buffferSizeRead) =>
              /\ last'.ret # STATUS_OK
              /\ UNCHANGED <<called_PICC_RequestA, called_PCD_Authenticate, uid, t_buffer>>)
       /\ ((last'.op = "MIFARE_Write" /\ last'.bufferSize # buffferSizeWrite) =>
              /\ last'.ret # STATUS_OK
              /\ UNCHANGED <<called_PICC_RequestA, called_PCD_Authenticate, uid,
                             t_buffer>>)]_vars

\* C13: the block card_in stores holds the cookie most-significant byte
\* first in bytes 0..3 (each a byte, bytes 0 and 1 making the upper and bytes
\* 2 and 3 the lower 16 bits), then version, folder, mode, special and
\* special2 in bytes 4..8, and zero in every byte from 9 to the end.
C13_BlockLayout ==
    last.op = "card_in" =>
        /\ Len(t_buffer) = buffferSizeRead
        /\ \A i \in 1..4 : t_buffer[i] \in 0..255
        /\ t_buffer[1] * 256 + t_buffer[2] = last.rec.cookie.hi
        /\ t_buffer[3] * 256 + t_buffer[4] = last.rec.cookie.lo
        /\ t_buffer[5] = last.rec.version
        /\ t_buffer[6] = last.rec.folder
        /\ t_buffer[7] = last.rec.mode
        /\ t_buffer[8] = last.rec.special
        /\ t_buffer[9] = last.rec.special2
        /\ \A i \in 10..buffferSizeRead : t_buffer[i] = 0

\* the record with cookie 0x01FF0200 has been encoded: bytes 01 FF 02 00
C13_Witness ==
    /\ last.op = "card_in"
    /\ last.rec = DataRecord(U32(511, 512), 255, 1, 128, 7, 255)
    /\ SubSeq(t_buffer, 1, 9) = <<1, 255, 2, 0, 255, 1, 128, 7, 255>>

\* C14, as stated: PICC_RequestA called in Selected or Authenticated leaves
\* the detected flag, the identifier and the authenticated flag as they
\* were; called in Absent with a card present it returns STATUS_OK and the
\* state becomes Detected.
C14_DetectHasNoSideEffects ==
    [][last'.op = "PICC_RequestA" =>
          /\ ((Selected \/ Authenticated) =>
                 UNCHANGED <<called_PICC_RequestA, uid, called_PCD_Authenticate>>)
          /\ ((Absent /\ card_is_in) => (last'.ret = STATUS_OK /\ Detected'))]_vars

\* C14, amended: PICC_RequestA never changes the identifier or the
\* authenticated flag, but it always rewrites the detected flag: it sets the
\* flag and returns STATUS_OK exactly when a card is present and no
\* authentication is active, and otherwise clears the flag and returns
\* STATUS_ERROR. So in Selected with the card present it succeeds and the
\* state becomes Detected again, in Authenticated it fails and clears the
\* flag, and in Absent with a card present it succeeds and the state becomes
\* Detected.
C14_DetectRewritesDetectedFlagOnly ==
    [][last'.op = "PICC_RequestA" =>
          /\ UNCHANGED <<card_is_in, uid, called_PCD_Authenticate, called_PICC_HaltA,
                         t_buffer, buffer>>
          /\ (last'.ret = STATUS_OK <=> (card_is_in /\ ~called_PCD_Authenticate))
          /\ (last'.ret # STATUS_OK => last'.ret = STATUS_ERROR)
          /\ (called_PICC_RequestA' <=> last'.ret = STATUS_OK)
          /\ ((Selected /\ card_is_in) => Detected')
          /\ (Authenticated => (~called_PICC_RequestA' /\ Authenticated'))
          /\ ((Absent /\ card_is_in) => (last'.ret = STATUS_OK /\ Detected'))]_vars

\* a detect has failed during an active authentication, on a present card
\* that holds an identifier
C14_Witness ==
    /\ last.op = "PICC_RequestA" /\ last.ret = STATUS_ERROR
    /\ called_PCD_Authenticate /\ ~called_PICC_RequestA /\ card_is_in /\ uid.size = 4

\* the capability bytes, after masking, that PICC_GetType knows
KnownSak == {0, 1, 4, 8, 9, 16, 17, 24, 32, 64}

\* C15: PICC_GetType gives a byte the type of that byte with its topmost bit
\* cleared, and every byte whose lower seven bits are none of 0x00, 0x01,
\* 0x04, 0x08, 0x09, 0x10, 0x11, 0x18, 0x20, 0x40 is Unknown.
C15_TopBitIgnored ==
    last.op = "PICC_GetType" =>
        /\ last.ret = PICC_GetType(last.sak % 128)
        /\ (last.sak % 128 \notin KnownSak => last.ret = PICC_TYPE_UNKNOWN)

\* the byte 0x88 has been classified as the byte 0x08 is
C15_Witness ==
    last.op = "PICC_GetType" /\ last.sak = 136 /\ last.ret = PICC_TYPE_MIFARE_1K

\* C16: a MIFARE_Write that returns a failure status leaves t_buffer
\* unchanged, and a MIFARE_Read that returns a failure status leaves the
\* caller's buffer unchanged.
C16_FailureTransfersNothing ==
    [][/\ ((last'.op = "MIFARE_Write" /\ last'.ret # STATUS_OK) => t_buffer' = t_buffer)
       /\ ((last'.op = "MIFARE_Read" /\ last'.ret # STATUS_OK) => buffer' = buffer)]_vars

\* a write of a block that differs from the stored one has failed, and the
\* caller's read buffer differs from the stored block too
C16_Witness ==
    /\ last.op = "MIFARE_Write" /\ last.ret = STATUS_ERROR
    /\ last.data # SubSeq(t_buffer, 1, buffferSizeWrite)
    /\ buffer # t_buffer /\ card_is_in

\* C17: while called_PCD_Authenticate is set PICC_RequestA returns
\* STATUS_ERROR, card present or not; the flag is cleared by PCD_StopCrypto1
\* and by a failing PCD_Authenticate only, so card_out and card_in leave it
\* set and do not make a detect succeed again.
C17_NoDetectWhileAuthenticated ==
    [][/\ ((called_PCD_Authenticate /\ last'.op = "PICC_RequestA") =>
              (last'.ret = STATUS_ERROR /\ ~called_PICC_RequestA'))
       /\ ((called_PCD_Authenticate /\ ~called_PCD_Authenticate') =>
              \/ last'.op = "PCD_StopCrypto1"
              \/ (last'.op = "PCD_Authenticate" /\ last'.ret = STATUS_ERROR))
       /\ ((called_PCD_Authenticate /\ last'.op \in {"card_out", "card_in"}) =>
              called_PCD_Authenticate')
       /\ ((called_PCD_Authenticate /\ last.op = "card_in"
            /\ last'.op = "PICC_RequestA") => last'.ret = STATUS_ERROR)]_vars

\* a detect has failed on a card that was inserted while the authentication
\* of an earlier session was still active
C17_Witness ==
    /\ last.op = "PICC_RequestA" /\ last.ret = STATUS_ERROR
    /\ called_PCD_Authenticate /\ card_is_in /\ uid.size = 0

\* C18: whenever called_PICC_RequestA is set, card_is_in is set.
C18_DetectedImpliesCardIn ==
    called_PICC_RequestA => card_is_in

\* the detected flag is set on a present card while an authentication is
\* active and a write has just been made
C18_Witness ==
    /\ called_PICC_RequestA /\ card_is_in /\ called_PCD_Authenticate
    /\ last.op = "MIFARE_Write" /\ last.ret = STATUS_OK

\* C19: bytes 16 and 17 of t_buffer are zero in every state, and a
\* successful MIFARE_Write puts the caller's bytes 0..15, so also its bytes
\* 9..15, into t_buffer.
C19_TrailingBytesZero ==
    /\ t_buffer[buffferSizeRead - 1] = 0
    /\ t_buffer[buffferSizeRead] = 0
    /\ ((last.op = "MIFARE_Write" /\ last.ret = STATUS_OK) =>
           \A i \in 1..buffferSizeWrite : t_buffer[i] = last.data[i])

\* a block with non-zero bytes 9..15 has been written: byte 15 of t_buffer
\* holds the caller's 0x20, bytes 16 and 17 are zero
C19_Witness ==
    /\ last.op = "MIFARE_Write" /\ last.ret = STATUS_OK
    /\ t_buffer[10] = 26 /\ t_buffer[buffferSizeWrite] = 32
    /\ t_buffer[buffferSizeRead - 1] = 0 /\ t_buffer[buffferSizeRead] = 0

\* what C20 says of one channel c scaled by s to the result x
ScaledAsClaimed(c, s, x) ==
    /\ x \in 0..255
    /\ x * 255 <= c * s /\ c * s < (x + 1) * 255
    /\ scale_product(c, s) = c * s /\ c * s <= 65535
    /\ x <= c /\ x <= s
    /\ (s = 255 => x = c)
    /\ (s = 0 => x = 0)

\* C20: every channel of a colour scaled by s is floor(c * s / 255), the
\* 16-bit product does not wrap, the result is at most c and at most s,
\* scaling by 255 returns the colour and scaling by 0 returns black.
C20_ColourScaling ==
    last.op = "color_t_operator_mul" =>
        /\ ScaledAsClaimed(last.color.r, last.s, last.ret.r)
        /\ ScaledAsClaimed(last.color.g, last.s, last.ret.g)
        /\ ScaledAsClaimed(last.color.b, last.s, last.ret.b)
        /\ (last.s = 255 => last.ret = last.color)
        /\ (last.s = 0 => last.ret = color_t(0, 0, 0))

\* the colour (255, 0, 253) has been scaled by 255 and is unchanged
C20_Witness ==
    /\ last.op = "color_t_operator_mul" /\ last.s = 255
    /\ last.color = color_t(255, 0, 253) /\ last.ret = color_t(255, 0, 253)

====
